---- MODULE Spec2Model ----
(***************************************************************************)
(* State-machine model of mods/scripts/client/gui/mods/                    *)
(* mod_reticle_light_toggle.py: the configuration object (_ModConfig), the *)
(* colour controller (_ReticleColorController), the mouse-event hook       *)
(* (_RightClickHook) and the settings callback of _ModEntryPoint.          *)
(*                                                                         *)
(* The session collaborators (crosshair controller, settings core, the     *)
(* control-mode classes, other mods) are inputs: every handler draws what  *)
(* the session exposes at that moment from a bounded set.                  *)
(***************************************************************************)
EXTENDS Integers, Sequences, FiniteSets, TLC

(***************************************************************************)
(* Bounds of the model.                                                    *)
(***************************************************************************)
\* toggle() calls counted since the toggle position was last seeded
MaxToggles == 3
\* backend methods that raise during one apply attempt (SpecApply)
MaxRaises == 2
\* handlers that other mods replace during a run
MaxForeign == 1

(***************************************************************************)
(* Configuration values.                                                   *)
(***************************************************************************)
Colors == {"#FFCC00", "#00FFDE"}

DEFAULT_CONFIG ==
    [enabled |-> TRUE,
     baseColor |-> "#FFCC00",
     alternateColor |-> "#00FFDE",
     startWithAlternateColor |-> FALSE]

Configs ==
    [enabled : BOOLEAN,
     baseColor : Colors,
     alternateColor : Colors,
     startWithAlternateColor : BOOLEAN]

(***************************************************************************)
(* What the session exposes during one apply attempt.                      *)
(*   crosshair : the object behind sessionProvider.shared.crosshair        *)
(*       "noProvider" sessionProvider is None                              *)
(*       "absent"     shared.crosshair is None                             *)
(*       "bare"       neither setter exists                                *)
(*       "legacy"     only setReticleColor                                 *)
(*       "override"   only setOverrideReticleColor                         *)
(*       "both"       both setters                                         *)
(*   settings  : the settings core                                         *)
(*       "noCore" / "noOptions" / "noSetting"  a lookup yields None        *)
(*       "dict"   getSystemValue() returns a per-context mapping           *)
(*       "scalar" getSystemValue() returns a value that is no dict         *)
(*   raises    : the backend methods that raise when called                *)
(***************************************************************************)
CrosshairKinds == {"noProvider", "absent", "bare", "legacy", "override", "both"}
SettingsKinds == {"noCore", "noOptions", "noSetting", "dict", "scalar"}
BackendMethods ==
    {"setOverrideReticleColor", "setReticleColor", "getSetting",
     "getSystemValue", "setSystemValue", "apply"}

\* the per-context keys of the gun marker colour setting
Contexts == {"arcade", "sniper"}
\* the colour the setting holds before the mod writes it
OldColor == "#FF0000"
\* getSystemValue(): the current system value of the setting
SystemValue(env) ==
    IF env.settings = "dict"
    THEN [isDict |-> TRUE, v |-> [k \in Contexts |-> OldColor]]
    ELSE [isDict |-> FALSE, v |-> [k \in {"value"} |-> OldColor]]

AllEnvs ==
    {e \in [crosshair : CrosshairKinds,
            settings : SettingsKinds,
            raises : SUBSET BackendMethods] : Cardinality(e.raises) <= MaxRaises}

HasOverride(env) == env.crosshair \in {"override", "both"}
HasLegacy(env) == env.crosshair \in {"legacy", "both"}
ControllerPresent(env) == env.crosshair \notin {"noProvider", "absent"}

\* one call on a collaborator, as it is recorded in the log of an attempt
Call(m, arg, env) == [m |-> m, arg |-> arg, raised |-> m \in env.raises]
NoArg == "-"

\* variant of ApplyThroughSettings: a missing core, options object or setting
\* counts as nothing left to do
ApplyThroughSettings_missingIsOk(hexColor, env) ==
    LET get == Call("getSetting", NoArg, env)
        gsv == Call("getSystemValue", NoArg, env)
        old == SystemValue(env)
        new == IF old.isDict
               THEN [old EXCEPT !.v = [k \in DOMAIN old.v |-> hexColor]]
               ELSE old
        ssv == Call("setSystemValue", new, env)
        app == Call("apply", NoArg, env)
        Fail(cs) == [ok |-> FALSE, calls |-> cs, escaped |-> FALSE]
        Skip(cs) == [ok |-> TRUE, calls |-> cs, escaped |-> FALSE]
    IN  IF env.settings \in {"noCore", "noOptions"} THEN Skip(<<>>)
        ELSE IF get.raised THEN Fail(<<get>>)
        ELSE IF env.settings = "noSetting" THEN Skip(<<get>>)
        ELSE IF gsv.raised THEN Fail(<<get, gsv>>)
        ELSE IF ssv.raised THEN Fail(<<get, gsv, ssv>>)
        ELSE IF app.raised THEN Fail(<<get, gsv, ssv, app>>)
        ELSE [ok |-> TRUE, calls |-> <<get, gsv, ssv, app>>, escaped |-> FALSE]

(***************************************************************************)
(* _applyThroughSettings(hexColor): returns [ok, calls, escaped].          *)
(***************************************************************************)
ApplyThroughSettings(hexColor, env) ==
    LET get == Call("getSetting", NoArg, env)
        gsv == Call("getSystemValue", NoArg, env)
        old == SystemValue(env)
        new == IF old.isDict
               THEN [old EXCEPT !.v = [k \in DOMAIN old.v |-> hexColor]]
               ELSE old
        ssv == Call("setSystemValue", new, env)
        app == Call("apply", NoArg, env)
        Fail(cs) == [ok |-> FALSE, calls |-> cs, escaped |-> FALSE]
    IN  IF env.settings \in {"noCore", "noOptions"} THEN Fail(<<>>)
        ELSE IF get.raised THEN Fail(<<get>>)
        ELSE IF env.settings = "noSetting" THEN Fail(<<get>>)
        ELSE IF gsv.raised THEN Fail(<<get, gsv>>)
        ELSE IF ssv.raised THEN Fail(<<get, gsv, ssv>>)
        ELSE IF app.raised THEN Fail(<<get, gsv, ssv, app>>)
        ELSE [ok |-> TRUE, calls |-> <<get, gsv, ssv, app>>, escaped |-> FALSE]

\* variant of ApplyGunMarkerColor: the legacy setter is probed before the
\* override setter
ApplyGunMarkerColor_legacyFirst(hexColor, env) ==
    LET ovr == Call("setOverrideReticleColor", hexColor, env)
        leg == Call("setReticleColor", hexColor, env)
        Done(cs, tr) ==
            [ok |-> TRUE, calls |-> cs, escaped |-> FALSE, tried |-> tr]
        Fallback(cs, tr) ==
            LET r == ApplyThroughSettings(hexColor, env)
            IN  [ok |-> r.ok, calls |-> cs \o r.calls, escaped |-> r.escaped,
                 tried |-> Append(tr, 3)]
    IN  IF ~ControllerPresent(env) THEN Fallback(<<>>, <<>>)
        ELSE IF HasLegacy(env)
             THEN IF leg.raised THEN Fallback(<<leg>>, <<2>>)
                  ELSE Done(<<leg>>, <<2>>)
        ELSE IF HasOverride(env)
             THEN IF ovr.raised THEN Fallback(<<ovr>>, <<1>>)
                  ELSE Done(<<ovr>>, <<1>>)
        ELSE Fallback(<<>>, <<>>)

(***************************************************************************)
(* _applyGunMarkerColor(hexColor): both crosshair setters sit in one try   *)
(* block, so a raising setter leaves the block and the settings fallback   *)
(* runs next.  Returns [ok, calls, escaped, tried]: tried lists the        *)
(* strategies entered (1 override setter, 2 legacy setter, 3 settings).    *)
(***************************************************************************)
ApplyGunMarkerColor(hexColor, env) ==
    LET ovr == Call("setOverrideReticleColor", hexColor, env)
        leg == Call("setReticleColor", hexColor, env)
        Done(cs, tr) ==
            [ok |-> TRUE, calls |-> cs, escaped |-> FALSE, tried |-> tr]
        Fallback(cs, tr) ==
            LET r == ApplyThroughSettings(hexColor, env)
            IN  [ok |-> r.ok, calls |-> cs \o r.calls, escaped |-> r.escaped,
                 tried |-> Append(tr, 3)]
    IN  IF ~ControllerPresent(env) THEN Fallback(<<>>, <<>>)
        ELSE IF HasOverride(env)
             THEN IF ovr.raised THEN Fallback(<<ovr>>, <<1>>)
                  ELSE Done(<<ovr>>, <<1>>)
        ELSE IF HasLegacy(env)
             THEN IF leg.raised THEN Fallback(<<leg>>, <<2>>)
                  ELSE Done(<<leg>>, <<2>>)
        ELSE Fallback(<<>>, <<>>)

(***************************************************************************)
(* State.                                                                  *)
(*   config, useAlternate, isInstalled, pendingUpdate : the controller     *)
(*       (config is the _ModConfig object it shares with the entry point)  *)
(*   alive          : the referent of the hook's weak reference exists     *)
(*   patchedClasses : the hook's list of patched classes                   *)
(*   own            : per control-mode class, the handleMouseEvent entry   *)
(*                    of the class's own __dict__ (<<>>: no entry)         *)
(*   modes          : the control_modes module: the classes it has and the *)
(*                    base class each one inherits from                    *)
(* Observations of a run, read by the properties only:                     *)
(*   obs        : what the last handler did                                *)
(*   lastResult : outcome of the most recent apply attempt                 *)
(*   nToggles, seed : toggle() calls since useAlternate was last seeded,   *)
(*                    and the seeded value                                 *)
(*   captured   : per class, the method install() read before wrapping it  *)
(*   nForeign   : handlers that other mods have replaced so far            *)
(*   file        : what is stored at CONFIG_PATH                           *)
(*   lastWritten : the colour a backend received last                      *)
(***************************************************************************)
VARIABLES config, useAlternate, isInstalled, pendingUpdate, alive,
          patchedClasses, own, modes,
          obs, lastResult, nToggles, seed, captured, nForeign,
          file, lastWritten

ctlVars == <<config, useAlternate, isInstalled, pendingUpdate>>
hookVars == <<patchedClasses, own, modes, captured, nForeign>>
vars == <<config, useAlternate, isInstalled, pendingUpdate, alive,
          patchedClasses, own, modes,
          obs, lastResult, nToggles, seed, captured, nForeign,
          file, lastWritten>>

NoEnv == [crosshair |-> "-", settings |-> "-", raises |-> {}]
NoEvent == [null |-> TRUE, hasIsButtonDown |-> FALSE, down |-> "-",
            button |-> "-", key |-> "-"]

\* the observation of a handler that did nothing
Quiet(op) ==
    [op |-> op, attempts |-> 0, calls |-> <<>>, color |-> "-", field |-> "-",
     env |-> NoEnv, escaped |-> FALSE, tried |-> <<>>,
     toggleCalls |-> 0, origCalls |-> 0, ret |-> "-", origRet |-> "-",
     cls |-> "-", event |-> NoEvent, origEvent |-> NoEvent,
     steps |-> <<>>, payload |-> [isDict |-> FALSE, m |-> <<>>],
     save |-> "-", wasAlternate |-> FALSE]

(***************************************************************************)
(* The controller's methods, as functions of the controller's fields and   *)
(* of the running observation:                                             *)
(*   s = [config, useAlternate, isInstalled, pendingUpdate,                *)
(*        attempts, calls, color, field, env, escaped, tried, file, steps] *)
(***************************************************************************)
Ctl ==
    [config |-> config, useAlternate |-> useAlternate,
     isInstalled |-> isInstalled, pendingUpdate |-> pendingUpdate,
     attempts |-> 0, calls |-> <<>>, color |-> "-", field |-> "-",
     env |-> NoEnv, escaped |-> FALSE, tried |-> <<>>,
     file |-> file, steps |-> <<>>]

\* bool(x) of a configuration flag
Truthy(x) == x = TRUE

applyCurrentColor(s, env) ==
    LET field == IF s.useAlternate THEN "alternateColor" ELSE "baseColor"
        color == s.config[field]
        r == ApplyGunMarkerColor(color, env)
        t == [s EXCEPT !.attempts = @ + 1, !.calls = @ \o r.calls,
                       !.color = color, !.field = field, !.env = env,
                       !.escaped = r.escaped, !.tried = r.tried]
    IN  IF r.escaped THEN t
        ELSE IF ~r.ok
             THEN [t EXCEPT !.pendingUpdate = TRUE]
             ELSE [t EXCEPT !.pendingUpdate = FALSE]

\* variant of install: the installed flag is not consulted
install_noGuard(s, env) ==
    LET t == [s EXCEPT !.isInstalled = TRUE]
    IN  IF Truthy(t.config.enabled) THEN applyCurrentColor(t, env) ELSE t

install(s, env) ==
    IF s.isInstalled THEN s
    ELSE LET t == [s EXCEPT !.isInstalled = TRUE]
         IN  IF Truthy(t.config.enabled) THEN applyCurrentColor(t, env) ELSE t

\* variant of uninstall: a deferred update is dropped too
uninstall_reset(s) ==
    [s EXCEPT !.isInstalled = FALSE, !.pendingUpdate = FALSE]

uninstall(s) == [s EXCEPT !.isInstalled = FALSE]

\* variant of toggle: the colour is applied before the position flips
toggle_applyFirst(s, env) ==
    IF ~Truthy(s.config.enabled) THEN s
    ELSE LET t == applyCurrentColor(s, env)
         IN  [t EXCEPT !.useAlternate = ~s.useAlternate]

\* variant of toggle: the enabled flag is not consulted
toggle_unguarded(s, env) ==
    applyCurrentColor([s EXCEPT !.useAlternate = ~s.useAlternate], env)

\* variant of toggle: nothing happens on a controller that is not installed
toggle_ifInstalled(s, env) ==
    IF ~Truthy(s.config.enabled) \/ ~s.isInstalled THEN s
    ELSE applyCurrentColor([s EXCEPT !.useAlternate = ~s.useAlternate], env)

toggle(s, env) ==
    IF ~Truthy(s.config.enabled) THEN s
    ELSE applyCurrentColor([s EXCEPT !.useAlternate = ~s.useAlternate], env)

\* variant of refreshFromConfig: the toggle position is kept
refreshFromConfig_noSeed(s, cfg, env) ==
    applyCurrentColor([s EXCEPT !.config = cfg], env)

refreshFromConfig(s, cfg, env) ==
    applyCurrentColor(
        [s EXCEPT !.config = cfg,
                  !.useAlternate = Truthy(cfg.startWithAlternateColor)], env)

\* variant of onAvatarReady: the flag is dropped without a retry
onAvatarReady_clear(s, env) ==
    IF s.pendingUpdate THEN [s EXCEPT !.pendingUpdate = FALSE] ELSE s

\* variant of onAvatarReady: the colour is applied on every call
onAvatarReady_always(s, env) == applyCurrentColor(s, env)

onAvatarReady(s, env) ==
    IF s.pendingUpdate THEN applyCurrentColor(s, env) ELSE s

\* a log whose last call is a colour setter or apply() that returned: a
\* backend took the colour
Accepted(calls) ==
    /\ calls # <<>>
    /\ ~calls[Len(calls)].raised
    /\ calls[Len(calls)].m \in
           {"setOverrideReticleColor", "setReticleColor", "apply"}

\* the calls of a log that handed a value to a backend and returned
Writes(calls) ==
    {i \in 1..Len(calls) :
        /\ ~calls[i].raised
        /\ calls[i].m \in
               {"setOverrideReticleColor", "setReticleColor", "setSystemValue"}}

\* the colour a call handed over; setSystemValue carries one colour per key
Written(call) ==
    IF call.m = "setSystemValue"
    THEN CHOOSE c \in {call.arg.v[k] : k \in DOMAIN call.arg.v} : TRUE
    ELSE call.arg

\* the controller's fields and the observation after a handler that left
\* the controller in s
Commit(s, o) ==
    /\ config' = s.config
    /\ useAlternate' = s.useAlternate
    /\ isInstalled' = s.isInstalled
    /\ pendingUpdate' = s.pendingUpdate
    /\ lastResult' = IF s.attempts = 0 THEN lastResult
                     ELSE IF Accepted(s.calls) THEN "ok" ELSE "failed"
    /\ obs' = [o EXCEPT !.attempts = s.attempts, !.calls = s.calls,
                        !.color = s.color, !.field = s.field,
                        !.env = s.env, !.escaped = s.escaped,
                        !.tried = s.tried, !.steps = s.steps,
                        !.wasAlternate = useAlternate]
    /\ file' = s.file
    /\ lastWritten' =
           IF Writes(s.calls) = {} THEN lastWritten
           ELSE Written(s.calls[CHOOSE i \in Writes(s.calls) :
                                    \A j \in Writes(s.calls) : j <= i])

(***************************************************************************)
(* Actions of the controller.                                              *)
(***************************************************************************)
Install(env) ==
    /\ alive
    /\ Commit(install(Ctl, env), Quiet("install"))
    /\ UNCHANGED <<alive, nToggles, seed, hookVars>>

Uninstall ==
    /\ alive
    /\ Commit(uninstall(Ctl), Quiet("uninstall"))
    /\ UNCHANGED <<alive, nToggles, seed, hookVars>>

Toggle(env) ==
    /\ alive
    /\ nToggles < MaxToggles
    /\ Commit(toggle(Ctl, env), [Quiet("toggle") EXCEPT !.toggleCalls = 1])
    /\ nToggles' = nToggles + 1
    /\ UNCHANGED <<alive, seed, hookVars>>

RefreshFromConfig(env) ==
    /\ alive
    /\ LET s == refreshFromConfig(Ctl, config, env)
       IN  /\ Commit(s, Quiet("refreshFromConfig"))
           /\ seed' = s.useAlternate
    /\ nToggles' = 0
    /\ UNCHANGED <<alive, hookVars>>

OnAvatarReady(env) ==
    /\ alive
    /\ Commit(onAvatarReady(Ctl, env), Quiet("onAvatarReady"))
    /\ UNCHANGED <<alive, nToggles, seed, hookVars>>

(***************************************************************************)
(* _ModEntryPoint.__onSettingsChanged(data).  A payload is                 *)
(* [isDict, m]: whether it is a dict, and the mapping it holds.            *)
(***************************************************************************)
ConfigKeys == {"enabled", "baseColor", "alternateColor", "startWithAlternateColor"}

Payload(isDict, m) == [isDict |-> isDict, m |-> m]

Payloads ==
    { Payload(FALSE, <<>>),
      Payload(TRUE, <<>>),
      Payload(TRUE, [k \in {"enabled"} |-> FALSE]),
      Payload(TRUE, [k \in {"enabled"} |-> TRUE]),
      Payload(TRUE, [k \in {"startWithAlternateColor"} |-> TRUE]),
      Payload(TRUE, [k \in {"startWithAlternateColor", "unknownKey"} |-> FALSE]),
      Payload(TRUE, [k \in {"baseColor", "alternateColor"} |->
                        IF k = "baseColor" THEN "#00FFDE" ELSE "#FFCC00"]),
      Payload(TRUE, [k \in {"baseColor"} |-> "#FFCC00"]),
      Payload(TRUE, [k \in {"alternateColor"} |-> "#00FFDE"]) }

\* for key in DEFAULT_CONFIG: if key in data: setattr(config, key, data[key])
Overlay(cfg, m) ==
    [k \in ConfigKeys |-> IF k \in DOMAIN m THEN m[k] ELSE cfg[k]]

(***************************************************************************)
(* The file at CONFIG_PATH: [kind, items, m].                              *)
(*   "missing"     os.path.isfile is false                                 *)
(*   "unreadable"  open() raises                                           *)
(*   "garbage"     json.load raises                                        *)
(*   "number" / "null" / "bool"  a JSON value that is no container         *)
(*   "string" / "list"  items holds the strings `key in data` finds        *)
(*   "object"      m is the mapping stored, items its keys                 *)
(***************************************************************************)
File(kind, items, m) == [kind |-> kind, items |-> items, m |-> m]
FileObject(m) == File("object", DOMAIN m, m)

\* the values the stored objects give to the configuration keys
StoredValue ==
    [enabled |-> FALSE, baseColor |-> "#00FFDE", alternateColor |-> "#FFCC00",
     startWithAlternateColor |-> TRUE]
StoredKeys == ConfigKeys \cup {"unknownKey"}

FileStates ==
    {File(k, {}, <<>>) : k \in {"missing", "unreadable", "garbage", "number",
                                "null", "bool", "string", "list"}}
    \cup {File(k, {"enabled"}, <<>>) : k \in {"string", "list"}}
    \cup {File(k, {"unknownKey"}, <<>>) : k \in {"string", "list"}}
    \cup {FileObject([k \in ks |-> IF k \in ConfigKeys THEN StoredValue[k]
                                   ELSE "-"]) : ks \in SUBSET StoredKeys}

\* _ModConfig.load(): [config, escaped]; the file is opened for reading only
load(cfg, f) ==
    IF f.kind = "missing" THEN [config |-> cfg, escaped |-> FALSE]
    ELSE IF f.kind \in {"unreadable", "garbage"}
         THEN [config |-> cfg, escaped |-> FALSE]
    ELSE IF f.kind \in {"number", "null", "bool"}
         \* `key in data` raises TypeError outside the try block
         THEN [config |-> cfg, escaped |-> TRUE]
    ELSE IF f.kind \in {"string", "list"}
         \* `key in data` is a substring or membership test; data[key] raises
         THEN [config |-> cfg, escaped |-> ConfigKeys \cap f.items # {}]
    ELSE [config |-> Overlay(cfg, f.m), escaped |-> FALSE]

\* what open(CONFIG_PATH, 'w') and json.dump can do
SaveOutcomes == {"ok", "openFails", "writeFails"}

\* _ModConfig.save(): the file afterwards; no outcome raises to the caller
save(cfg, f, out) ==
    IF out = "ok" THEN FileObject(cfg)
    ELSE IF out = "openFails" THEN f
    ELSE File("garbage", {}, <<>>)

\* variant of onSettingsChanged: the file is written before the overlay
onSettingsChanged_saveFirst(s, data, env, out) ==
    IF ~data.isDict THEN s
    ELSE LET t == [s EXCEPT !.file = save(s.config, s.file, out),
                            !.steps = <<"save">>]
             u == [t EXCEPT !.config = Overlay(t.config, data.m),
                            !.steps = Append(@, "overlay")]
         IN  refreshFromConfig(
                 [u EXCEPT !.steps = Append(@, "refreshFromConfig")],
                 u.config, env)

onSettingsChanged(s, data, env, out) ==
    IF ~data.isDict THEN s
    ELSE LET t == [s EXCEPT !.config = Overlay(s.config, data.m),
                            !.steps = <<"overlay">>]
             u == [t EXCEPT !.file = save(t.config, t.file, out),
                            !.steps = Append(@, "save")]
         IN  refreshFromConfig(
                 [u EXCEPT !.steps = Append(@, "refreshFromConfig")],
                 u.config, env)

\* _ModEntryPoint.__init__ got past _ModConfig() and built the controller
Constructed == obs.op # "new" /\ ~(obs.op = "load" /\ obs.escaped)

OnSettingsChanged(data, env, out) ==
    /\ alive
    /\ Constructed
    /\ LET s == onSettingsChanged(Ctl, data, env, out)
       IN  /\ Commit(s, [Quiet("onSettingsChanged") EXCEPT
                             !.payload = data, !.save = out])
           /\ seed' = IF data.isDict THEN s.useAlternate ELSE seed
    /\ nToggles' = IF data.isDict THEN 0 ELSE nToggles
    /\ UNCHANGED <<alive, hookVars>>

\* _ModConfig.__init__ calls load() on the defaults; when it returns, the
\* controller is built on the loaded configuration and seeds useAlternate
Load ==
    /\ obs.op = "new"
    /\ LET r == load(config, file)
       IN  /\ config' = r.config
           /\ useAlternate' = Truthy(r.config.startWithAlternateColor)
           /\ seed' = Truthy(r.config.startWithAlternateColor)
           /\ obs' = [Quiet("load") EXCEPT !.escaped = r.escaped]
    /\ UNCHANGED <<isInstalled, pendingUpdate, alive, hookVars, lastResult,
                   nToggles, file, lastWritten>>

(***************************************************************************)
(* The control-mode classes and their handleMouseEvent attribute.          *)
(* A handler is the chain of its layers, outermost first:                  *)
(*   "W"  a wrapper made by makeWrapper (it carries __original__)          *)
(*   "F"  a function another mod put in the slot; it calls what it         *)
(*        replaced and carries no __original__                             *)
(*   last element: the name of the class that defined the method           *)
(***************************************************************************)
ClassNames ==
    <<"ArcadeControlMode", "SniperControlMode", "StrategicControlMode",
      "DualGunControlMode">>
Classes == {ClassNames[i] : i \in 1..Len(ClassNames)}
NoBase == "object"

\* getattr(cls, 'handleMouseEvent', None) through the class and its bases;
\* <<>> when hasattr(cls, 'handleMouseEvent') is false
RECURSIVE Lookup(_, _, _)
Lookup(o, md, cls) ==
    IF cls \notin md.present THEN <<>>
    ELSE IF o[cls] # <<>> THEN o[cls]
    ELSE IF md.parent[cls] = NoBase THEN <<>>
    ELSE Lookup(o, md, md.parent[cls])

IsWrapper(h) == h # <<>> /\ Head(h) = "W"
\* getattr(handler, '__original__', None); <<>> stands for None
Original(h) == IF IsWrapper(h) THEN Tail(h) ELSE <<>>
\* number of makeWrapper layers in a handler
Depth(h) == Cardinality({i \in 1..Len(h) : h[i] = "W"})

\* makeWrapper(original)
makeWrapper(method) == <<"W">> \o method

(***************************************************************************)
(* _RightClickHook.install(): h = [patched, own, captured]                 *)
(***************************************************************************)
RECURSIVE InstallLoop(_, _, _)
InstallLoop(h, md, i) ==
    IF i > Len(ClassNames) THEN h
    ELSE LET cls == ClassNames[i]
             original == Lookup(h.own, md, cls)
             InList == \E j \in 1..Len(h.patched) : h.patched[j] = cls
         IN  IF cls \in md.present /\ original # <<>> /\ ~InList
             THEN InstallLoop(
                      [patched |-> Append(h.patched, cls),
                       own |-> [h.own EXCEPT ![cls] = makeWrapper(original)],
                       captured |-> [h.captured EXCEPT ![cls] = original]],
                      md, i + 1)
             ELSE InstallLoop(h, md, i + 1)

hook_install(h, md) == InstallLoop(h, md, 1)

(***************************************************************************)
(* _RightClickHook.uninstall()                                             *)
(***************************************************************************)
RECURSIVE UninstallLoop(_, _, _)
UninstallLoop(h, md, i) ==
    IF i > Len(h.patched) THEN [h EXCEPT !.patched = <<>>]
    ELSE LET cls == h.patched[i]
             handler == Lookup(h.own, md, cls)
             original == Original(handler)
         IN  IF handler # <<>> /\ original # <<>>
             THEN UninstallLoop([h EXCEPT !.own[cls] = original], md, i + 1)
             ELSE UninstallLoop(h, md, i + 1)

hook_uninstall(h, md) == UninstallLoop(h, md, 1)

Hook == [patched |-> patchedClasses, own |-> own, captured |-> captured]

HookInstall ==
    /\ LET h == hook_install(Hook, modes)
       IN  /\ patchedClasses' = h.patched
           /\ own' = h.own
           /\ captured' = h.captured
    /\ obs' = Quiet("hookInstall")
    /\ UNCHANGED <<ctlVars, alive, modes, nForeign, lastResult, nToggles, seed,
                   file, lastWritten>>

HookUninstall ==
    /\ LET h == hook_uninstall(Hook, modes)
       IN  /\ patchedClasses' = h.patched
           /\ own' = h.own
           /\ captured' = h.captured
    /\ obs' = Quiet("hookUninstall")
    /\ UNCHANGED <<ctlVars, alive, modes, nForeign, lastResult, nToggles, seed,
                   file, lastWritten>>

\* another mod replaces cls.handleMouseEvent by a function of its own that
\* calls the one it found
ForeignPatch(cls) ==
    /\ nForeign < MaxForeign
    /\ LET found == Lookup(own, modes, cls)
       IN  /\ found # <<>>
           /\ own' = [own EXCEPT ![cls] = <<"F">> \o found]
    /\ nForeign' = nForeign + 1
    /\ obs' = Quiet("foreignPatch")
    /\ UNCHANGED <<ctlVars, alive, patchedClasses, modes, captured,
                   lastResult, nToggles, seed,
                   file, lastWritten>>

\* the controller is collected: the weak reference of the hook is dead
ControllerVanish ==
    /\ alive
    /\ alive' = FALSE
    /\ obs' = Quiet("controllerVanish")
    /\ UNCHANGED <<ctlVars, hookVars, lastResult, nToggles, seed,
                   file, lastWritten>>

(***************************************************************************)
(* Mouse events.  An event is [null, hasIsButtonDown, down, button, key]:  *)
(* whether it is None, whether it has isButtonDown, what isButtonDown()    *)
(* does ("True", "False", "raises"), and its button and key attributes     *)
(* ("-": the attribute is missing).                                        *)
(***************************************************************************)
KEY_RIGHTMOUSE == "KEY_RIGHTMOUSE"
KEY_LEFTMOUSE == "KEY_LEFTMOUSE"

Event(has, down, button, key) ==
    [null |-> FALSE, hasIsButtonDown |-> has, down |-> down,
     button |-> button, key |-> key]

RightDown == Event(TRUE, "True", KEY_RIGHTMOUSE, "-")
LeftDown == Event(TRUE, "True", KEY_LEFTMOUSE, "-")
RightUp == Event(TRUE, "False", KEY_RIGHTMOUSE, "-")
KeyRightDown == Event(TRUE, "True", "-", KEY_RIGHTMOUSE)
KeyLeftDown == Event(TRUE, "True", "-", KEY_LEFTMOUSE)
NoIdentDown == Event(TRUE, "True", "-", "-")
NoMethod == Event(FALSE, "-", KEY_RIGHTMOUSE, "-")
RaisingDown == Event(TRUE, "raises", KEY_RIGHTMOUSE, "-")

Events ==
    {NoEvent, RightDown, LeftDown, RightUp, KeyRightDown, KeyLeftDown,
     NoIdentDown, NoMethod, RaisingDown}

\* what an original handler may return
Returns == {"True", "False", "None"}

\* _RightClickHook.__shouldToggle(event)
shouldToggle(event) ==
    IF event.null THEN FALSE
    ELSE IF ~event.hasIsButtonDown THEN FALSE
    ELSE IF event.down = "raises" THEN FALSE
    ELSE IF event.down = "True"
         THEN LET key == IF event.button # "-" THEN event.button
                         ELSE event.key
              IN  key = KEY_RIGHTMOUSE
    ELSE FALSE

(***************************************************************************)
(* Calling a handler chain with an event: live is whether the weak         *)
(* reference still yields the controller, r is what the original method    *)
(* returns.  The result counts the toggle() calls and the calls of the     *)
(* original method, and holds the value returned to the caller.            *)
(***************************************************************************)
RECURSIVE CallHandler(_, _, _, _)
\* variant of wrapper: the weak reference is not tested
wrapper_ignoresLiveness(method, event, live, r) ==
    IF shouldToggle(event)
    THEN [toggleCalls |-> 1, origCalls |-> 0, ret |-> "True",
          origRet |-> "-", origEvent |-> NoEvent]
    ELSE CallHandler(method, event, live, r)

\* variant of wrapper: the original method is called after the toggle too
wrapper_alsoDelegates(method, event, live, r) ==
    LET inner == CallHandler(method, event, live, r)
    IN  IF shouldToggle(event) /\ live
        THEN [inner EXCEPT !.toggleCalls = @ + 1]
        ELSE inner

\* wrapper(instance, event) of makeWrapper(method)
wrapper(method, event, live, r) ==
    IF shouldToggle(event) /\ live
    THEN [toggleCalls |-> 1, origCalls |-> 0, ret |-> "True",
          origRet |-> "-", origEvent |-> NoEvent]
    ELSE CallHandler(method, event, live, r)

CallHandler(h, event, live, r) ==
    IF Head(h) = "W" THEN wrapper(Tail(h), event, live, r)
    ELSE IF Head(h) = "F" THEN CallHandler(Tail(h), event, live, r)
    ELSE [toggleCalls |-> 0, origCalls |-> 1, ret |-> r,
          origRet |-> r, origEvent |-> event]

RECURSIVE ToggleTimes(_, _, _)
ToggleTimes(s, n, env) ==
    IF n = 0 THEN s ELSE ToggleTimes(toggle(s, env), n - 1, env)

\* the session delivers event to handleMouseEvent of an instance of cls
Deliver(cls, event, r, env) ==
    /\ Lookup(own, modes, cls) # <<>>
    /\ LET res == CallHandler(Lookup(own, modes, cls), event, alive, r)
       IN  /\ nToggles + res.toggleCalls <= MaxToggles
           /\ nToggles' = nToggles + res.toggleCalls
           /\ Commit(ToggleTimes(Ctl, res.toggleCalls, env),
                     [Quiet("deliver") EXCEPT
                         !.toggleCalls = res.toggleCalls,
                         !.origCalls = res.origCalls,
                         !.ret = res.ret, !.origRet = res.origRet,
                         !.cls = cls, !.event = event,
                         !.origEvent = res.origEvent])
    /\ UNCHANGED <<alive, seed, hookVars>>

\* _ReticleColorController.applyCurrentColor() called on its own
ApplyCurrentColor(env) ==
    /\ alive
    /\ Commit(applyCurrentColor(Ctl, env), Quiet("applyCurrentColor"))
    /\ UNCHANGED <<alive, nToggles, seed, hookVars>>

(***************************************************************************)
(* Initial states: the objects as _ModEntryPoint.__init__ constructs them, *)
(* before it installs the hook and the controller.                         *)
(***************************************************************************)
\* every class defines its own handleMouseEvent
PlainModes ==
    [present |-> Classes, parent |-> [c \in Classes |-> NoBase],
     defines |-> Classes]

ModeShapes ==
    { PlainModes,
      \* a client without DualGunControlMode
      [PlainModes EXCEPT !.present = Classes \ {"DualGunControlMode"}],
      \* a class without handleMouseEvent
      [PlainModes EXCEPT !.defines = Classes \ {"StrategicControlMode"}],
      \* DualGunControlMode subclasses SniperControlMode and inherits the method
      [PlainModes EXCEPT !.parent["DualGunControlMode"] = "SniperControlMode",
                         !.defines = Classes \ {"DualGunControlMode"}] }

InitWith(cfgs, shapes) ==
    /\ config \in cfgs
    /\ useAlternate = Truthy(config.startWithAlternateColor)
    /\ isInstalled = FALSE
    /\ pendingUpdate = FALSE
    /\ alive = TRUE
    /\ patchedClasses = <<>>
    /\ modes \in shapes
    /\ own = [c \in Classes |->
                 IF c \in modes.present /\ c \in modes.defines
                 THEN <<c>> ELSE <<>>]
    /\ obs = Quiet("init")
    /\ lastResult = "none"
    /\ nToggles = 0
    /\ seed = useAlternate
    /\ captured = [c \in Classes |-> <<>>]
    /\ nForeign = 0
    /\ file = FileObject(config)
    /\ lastWritten = "-"

(***************************************************************************)
(* Spec: the controller, with the hook on plain control-mode classes.      *)
(***************************************************************************)
Envs ==
    { [crosshair |-> "both", settings |-> "dict", raises |-> {}],
      [crosshair |-> "absent", settings |-> "noCore", raises |-> {}],
      [crosshair |-> "bare", settings |-> "dict", raises |-> {}],
      [crosshair |-> "absent", settings |-> "scalar", raises |-> {}],
      [crosshair |-> "legacy", settings |-> "dict",
       raises |-> {"setReticleColor", "apply"}] }

Init == InitWith(Configs, {PlainModes})

Next ==
    \/ \E env \in Envs : Install(env)
    \/ Uninstall
    \/ \E env \in Envs : Toggle(env)
    \/ \E env \in Envs : RefreshFromConfig(env)
    \/ \E env \in Envs : OnAvatarReady(env)
    \/ \E data \in Payloads, env \in Envs : OnSettingsChanged(data, env, "ok")
    \/ HookInstall
    \/ HookUninstall
    \/ \E event \in {RightDown, LeftDown}, env \in Envs :
           Deliver("ArcadeControlMode", event, "None", env)

Spec == Init /\ [][Next]_vars

(***************************************************************************)
(* SpecApply: applyCurrentColor() against every session of AllEnvs.        *)
(***************************************************************************)
InitApply ==
    /\ InitWith({DEFAULT_CONFIG,
                 [DEFAULT_CONFIG EXCEPT !.startWithAlternateColor = TRUE]},
                {PlainModes})

NextApply == \E env \in AllEnvs : ApplyCurrentColor(env)

SpecApply == InitApply /\ [][NextApply]_vars

(***************************************************************************)
(* SpecConfig: the configuration store from _ModConfig.__init__ on, over   *)
(* every file of FileStates, and the settings commits that follow.         *)
(***************************************************************************)
ConfigEnvs ==
    { [crosshair |-> "both", settings |-> "dict", raises |-> {}],
      [crosshair |-> "absent", settings |-> "noCore", raises |-> {}] }

InitConfig ==
    /\ config = DEFAULT_CONFIG
    /\ useAlternate = FALSE
    /\ isInstalled = FALSE
    /\ pendingUpdate = FALSE
    /\ alive = TRUE
    /\ patchedClasses = <<>>
    /\ modes = PlainModes
    /\ own = [c \in Classes |-> <<c>>]
    /\ obs = Quiet("new")
    /\ lastResult = "none"
    /\ nToggles = 0
    /\ seed = FALSE
    /\ captured = [c \in Classes |-> <<>>]
    /\ nForeign = 0
    /\ file \in FileStates
    /\ lastWritten = "-"

NextConfig ==
    \/ Load
    \/ \E data \in Payloads, env \in ConfigEnvs, out \in SaveOutcomes :
           OnSettingsChanged(data, env, out)

SpecConfig == InitConfig /\ [][NextConfig]_vars

(***************************************************************************)
(* SpecHook: the hook on every shape of the control_modes module, every    *)
(* event, and the controller vanishing.                                    *)
(***************************************************************************)
HookEnvs == { [crosshair |-> "both", settings |-> "dict", raises |-> {}] }

HookConfigs == {DEFAULT_CONFIG, [DEFAULT_CONFIG EXCEPT !.enabled = FALSE]}

InitHook == InitWith(HookConfigs, ModeShapes)

NextHook ==
    \/ HookInstall
    \/ HookUninstall
    \/ ControllerVanish
    \/ \E cls \in Classes, event \in Events, r \in Returns, env \in HookEnvs :
           Deliver(cls, event, r, env)

SpecHook == InitHook /\ [][NextHook]_vars

(***************************************************************************)
(* SpecForeign: the hook while other mods patch the same classes.          *)
(***************************************************************************)
InitForeign == InitWith({DEFAULT_CONFIG}, {PlainModes})

NextForeign ==
    \/ HookInstall
    \/ HookUninstall
    \/ \E cls \in Classes : ForeignPatch(cls)
    \/ \E cls \in Classes, event \in {RightDown, LeftDown}, env \in HookEnvs :
           Deliver(cls, event, "None", env)

SpecForeign == InitForeign /\ [][NextForeign]_vars

(***************************************************************************)
(* Properties.                                                             *)
(***************************************************************************)
\* the configuration field an apply attempt reads after n toggles from the
\* seeded position sd
ParityField(n, sd) ==
    IF (n % 2 = 1) # sd THEN "alternateColor" ELSE "baseColor"

\* C1: with enabled true, the apply attempt of the Nth toggle() since the
\* position was seeded (called directly or through an intercepted right
\* button press) selects alternateColor iff N is odd when the seed was
\* false, and baseColor iff N is odd when the seed was true; the attempt of
\* install() selects the colour of the position reached so far.
C1_ToggleParity ==
    /\ (obs.toggleCalls = 1 /\ Truthy(config.enabled)) =>
          /\ obs.attempts = 1
          /\ obs.field = ParityField(nToggles, seed)
          /\ obs.color = config[obs.field]
    /\ (obs.op = "install" /\ obs.attempts = 1) =>
          /\ obs.field = ParityField(nToggles, seed)
          /\ obs.color = config[obs.field]

\* the second right button press on the default configuration: the base
\* colour is applied again
C1_Witness ==
    /\ obs.op = "deliver"
    /\ obs.toggleCalls = 1
    /\ config = DEFAULT_CONFIG
    /\ nToggles = 2
    /\ obs.color = "#FFCC00"

\* C2: while enabled is false, a toggle() call changes neither useAlternate
\* nor pendingUpdate (nor any other controller field) and calls no backend.
C2_DisabledToggleNoOp ==
    [][(obs'.toggleCalls = 1 /\ ~Truthy(config.enabled)) =>
          /\ UNCHANGED ctlVars
          /\ obs'.attempts = 0
          /\ obs'.calls = <<>>]_vars

\* toggle() was called while disabled and a colour update was pending
C2_Witness ==
    /\ obs.op = "toggle"
    /\ obs.toggleCalls = 1
    /\ ~Truthy(config.enabled)
    /\ pendingUpdate

Tried(k) == \E i \in 1..Len(obs.tried) : obs.tried[i] = k

\* C3 as stated: in an apply attempt where the crosshair controller exists
\* and has the override setter, neither strategy 2 nor strategy 3 runs.
C3_StrictPriority_Original ==
    (obs.attempts = 1 /\ HasOverride(obs.env)) => (~Tried(2) /\ ~Tried(3))

\* C3 amended: in such an attempt strategy 2 never runs, and strategy 3
\* runs exactly when the override setter raised.
C3_StrictPriority ==
    (obs.attempts = 1 /\ HasOverride(obs.env)) =>
        /\ Tried(1)
        /\ ~Tried(2)
        /\ Tried(3) <=> ("setOverrideReticleColor" \in obs.env.raises)

\* strategy 1 succeeded while the legacy setter and the setting were there
C3_Witness ==
    /\ obs.attempts = 1
    /\ obs.env.crosshair = "both"
    /\ obs.env.settings = "dict"
    /\ obs.env.raises = {}
    /\ obs.tried = <<1>>

Raised(m) == \E i \in 1..Len(obs.calls) : obs.calls[i].m = m /\ obs.calls[i].raised

\* C4: a raising backend call does not escape applyCurrentColor and the
\* chain goes on with the next strategy in priority order: after a raising
\* override setter the legacy setter is tried when it exists (else the
\* settings fallback), after a raising legacy setter the settings fallback,
\* and a raising settings fallback makes the attempt fail.
C4_ChainContinues ==
    obs.attempts = 1 =>
        /\ ~obs.escaped
        /\ (Raised("setOverrideReticleColor") /\ HasLegacy(obs.env)) => Tried(2)
        /\ (Raised("setOverrideReticleColor") /\ ~HasLegacy(obs.env)) => Tried(3)
        /\ Raised("setReticleColor") => Tried(3)
        /\ (\E m \in {"getSetting", "getSystemValue", "setSystemValue", "apply"} :
               Raised(m)) => pendingUpdate

\* C5: an apply attempt that no backend took leaves pendingUpdate true; a
\* following onAvatarReady() makes exactly one apply attempt and leaves
\* pendingUpdate false iff a backend took the colour.
C5_RetryOnReady ==
    /\ [](obs.attempts >= 1 /\ ~Accepted(obs.calls) => pendingUpdate)
    /\ [][(pendingUpdate /\ obs'.op = "onAvatarReady") =>
             /\ obs'.attempts = 1
             /\ pendingUpdate' <=> ~Accepted(obs'.calls)]_vars

\* a retry on onAvatarReady() that succeeded
C5_Witness ==
    /\ obs.op = "onAvatarReady"
    /\ obs.attempts = 1
    /\ Accepted(obs.calls)
    /\ ~pendingUpdate

\* C6: pendingUpdate is true iff the most recent apply attempt failed (false
\* before any attempt), and onAvatarReady() with pendingUpdate false calls
\* no backend and changes no controller field.
C6_PendingInvariant ==
    /\ [](pendingUpdate <=> lastResult = "failed")
    /\ [][(~pendingUpdate /\ obs'.op = "onAvatarReady") =>
             /\ obs'.attempts = 0
             /\ obs'.calls = <<>>
             /\ UNCHANGED ctlVars]_vars

\* onAvatarReady() after a successful attempt did nothing
C6_Witness ==
    /\ obs.op = "onAvatarReady"
    /\ obs.attempts = 0
    /\ lastResult = "ok"
    /\ ~pendingUpdate

\* C7: install() on an installed controller makes no apply attempt and
\* changes nothing; on an uninstalled one it sets the flag and makes one
\* attempt when enabled, none when disabled.
C7_InstallIdempotent ==
    [][obs'.op = "install" =>
          IF isInstalled
          THEN /\ obs'.attempts = 0
               /\ obs'.calls = <<>>
               /\ UNCHANGED ctlVars
          ELSE /\ isInstalled'
               /\ obs'.attempts = IF Truthy(config.enabled) THEN 1 ELSE 0
               /\ UNCHANGED <<config, useAlternate>>]_vars

\* install() on an installed, enabled controller
C7_Witness ==
    /\ obs.op = "install"
    /\ obs.attempts = 0
    /\ isInstalled
    /\ Truthy(config.enabled)

\* the handler a class answers with
HandlerOf(cls) == Lookup(own, modes, cls)
Wrapped == {c \in Classes : HandlerOf(c) # <<>>}
\* a press of the right mouse button
IsTargetPress(event) == event \in {RightDown, KeyRightDown}

\* C8: as long as only the hook's install() and uninstall() touch the
\* classes, every handler holds at most one wrapper while the hook is
\* installed and none after uninstall(), no class is registered twice, and
\* one right button press makes exactly one toggle() call.
C8_NoNesting ==
    nForeign = 0 =>
        /\ \A c \in Wrapped : Depth(HandlerOf(c)) <= 1
        /\ patchedClasses = <<>> => \A c \in Wrapped : Depth(HandlerOf(c)) = 0
        /\ \A i, j \in 1..Len(patchedClasses) :
               patchedClasses[i] = patchedClasses[j] => i = j
        /\ (obs.op = "deliver" /\ alive /\ IsTargetPress(obs.event)
              /\ IsWrapper(HandlerOf(obs.cls))) => obs.toggleCalls = 1

\* C9: uninstall() leaves every registered class with the method install()
\* captured for it and empties the registration; with nothing registered it
\* changes nothing.
C9_RestoresCaptured ==
    [][obs'.op = "hookUninstall" =>
          /\ \A i \in 1..Len(patchedClasses) :
                 Lookup(own', modes, patchedClasses[i]) = captured[patchedClasses[i]]
          /\ patchedClasses' = <<>>
          /\ patchedClasses = <<>> => own' = own]_vars

\* C10: with the hook installed and the controller alive, an event given to
\* a wrapped handler either is a right button press, and then toggle() runs
\* once, the original method does not run and True is returned, or it is
\* not, and then toggle() does not run, the original method runs once with
\* the same event and its result is returned.
C10_WrapperDispatch ==
    (obs.op = "deliver" /\ alive /\ IsWrapper(HandlerOf(obs.cls))) =>
        IF IsTargetPress(obs.event)
        THEN /\ obs.toggleCalls = 1
             /\ obs.origCalls = 0
             /\ obs.ret = "True"
        ELSE /\ obs.toggleCalls = 0
             /\ obs.origCalls = 1
             /\ obs.origEvent = obs.event
             /\ obs.ret = obs.origRet

\* a right button press consumed by the wrapper of an installed hook
C10_Witness ==
    /\ obs.op = "deliver"
    /\ alive
    /\ patchedClasses # <<>>
    /\ IsWrapper(HandlerOf(obs.cls))
    /\ obs.event = RightDown
    /\ obs.toggleCalls = 1
    /\ obs.ret = "True"

\* C11: once the controller has vanished, every event given to a handler,
\* a right button press included, reaches the original method once, its
\* result is returned, toggle() is not called and nothing is raised.
C11_VanishedPassThrough ==
    (obs.op = "deliver" /\ ~alive) =>
        /\ obs.toggleCalls = 0
        /\ obs.attempts = 0
        /\ obs.origCalls = 1
        /\ obs.origEvent = obs.event
        /\ obs.ret = obs.origRet
        /\ ~obs.escaped

\* a right button press on a wrapped handler after the controller vanished
C11_Witness ==
    /\ obs.op = "deliver"
    /\ ~alive
    /\ IsWrapper(HandlerOf(obs.cls))
    /\ obs.event = RightDown
    /\ obs.origCalls = 1

MutatingMethods ==
    {"setOverrideReticleColor", "setReticleColor", "setSystemValue", "apply"}

\* C12: an apply attempt that finds neither the crosshair controller nor the
\* colour setting (no settings core, no options, or no setting) ends with
\* pendingUpdate true and has called no setter and no apply().
C12_NothingReachable ==
    (obs.attempts = 1 /\ ~ControllerPresent(obs.env)
       /\ obs.env.settings \in {"noCore", "noOptions", "noSetting"}) =>
        /\ pendingUpdate
        /\ \A i \in 1..Len(obs.calls) : obs.calls[i].m \notin MutatingMethods

\* the crosshair controller is None and getSetting() yields None
C12_Witness ==
    /\ obs.attempts = 1
    /\ obs.env.crosshair = "absent"
    /\ obs.env.settings = "noSetting"
    /\ obs.env.raises = {}
    /\ Len(obs.calls) = 1
    /\ pendingUpdate

\* C20: with the hook installed and the controller alive, a right button
\* press is consumed (True is returned, the original method does not run)
\* whatever the enabled flag is; with enabled false the toggle() call it
\* makes changes no controller field and calls no backend.
C20_PressConsumedWhenDisabled ==
    [][(obs'.op = "deliver" /\ alive /\ IsWrapper(HandlerOf(obs'.cls))
          /\ IsTargetPress(obs'.event)) =>
          /\ obs'.ret = "True"
          /\ obs'.origCalls = 0
          /\ obs'.toggleCalls = 1
          /\ ~Truthy(config.enabled) =>
                 /\ UNCHANGED ctlVars
                 /\ obs'.attempts = 0
                 /\ obs'.calls = <<>>]_vars

\* a right button press swallowed while the mod is disabled
C20_Witness ==
    /\ obs.op = "deliver"
    /\ alive
    /\ ~Truthy(config.enabled)
    /\ IsWrapper(HandlerOf(obs.cls))
    /\ obs.event = RightDown
    /\ obs.ret = "True"
    /\ obs.origCalls = 0

CallsOf(m) == {i \in 1..Len(obs.calls) : obs.calls[i].m = m}
ViaSettings == \E i \in 1..Len(obs.tried) : obs.tried[i] = 3

\* C16: when an apply attempt succeeds through the settings fallback, the
\* value handed to setSystemValue carries the selected colour (for a
\* per-context mapping: the same keys, every one mapped to the colour),
\* setSystemValue is called exactly once and apply() exactly once after it.
C16_SettingsValueCarriesColor ==
    (obs.attempts = 1 /\ ViaSettings /\ ~pendingUpdate) =>
        /\ Cardinality(CallsOf("setSystemValue")) = 1
        /\ Cardinality(CallsOf("apply")) = 1
        /\ \A i \in CallsOf("setSystemValue") :
              /\ ~obs.calls[i].raised
              /\ DOMAIN obs.calls[i].arg.v = DOMAIN SystemValue(obs.env).v
              /\ \A k \in DOMAIN obs.calls[i].arg.v :
                    obs.calls[i].arg.v[k] = obs.color
              /\ \A j \in CallsOf("apply") : j > i

\* C13: load() never raises and never modifies the file, whatever the file
\* is (missing, unreadable, not parseable, a JSON value that is no object,
\* an object with any subset of the keys); afterwards each field holds the
\* file's value when the file is an object with that key and its default
\* otherwise, and unrecognized keys have no effect.
C13_LoadTotal ==
    [][obs'.op = "load" =>
          /\ ~obs'.escaped
          /\ file' = file
          /\ DOMAIN config' = ConfigKeys
          /\ \A k \in ConfigKeys :
                config'[k] = IF file.kind = "object" /\ k \in DOMAIN file.m
                             THEN file.m[k]
                             ELSE DEFAULT_CONFIG[k]]_vars

\* C15: a settings commit whose payload is no mapping changes neither the
\* configuration, the file, useAlternate nor pendingUpdate and makes no
\* apply attempt.  A commit with a mapping overlays the recognized keys it
\* holds and leaves the other fields alone, then saves the overlaid
\* configuration, then calls refreshFromConfig on it, in that order.
C15_SettingsCommit ==
    [][obs'.op = "onSettingsChanged" =>
          IF ~obs'.payload.isDict
          THEN /\ UNCHANGED <<config, file, useAlternate, pendingUpdate>>
               /\ obs'.attempts = 0
               /\ obs'.calls = <<>>
               /\ obs'.steps = <<>>
          ELSE /\ DOMAIN config' = ConfigKeys
               /\ \A k \in ConfigKeys :
                     config'[k] = IF k \in DOMAIN obs'.payload.m
                                  THEN obs'.payload.m[k]
                                  ELSE config[k]
               /\ obs'.steps = <<"overlay", "save", "refreshFromConfig">>
               /\ obs'.save = "ok" => file' = FileObject(config')
               /\ obs'.save = "openFails" => file' = file
               /\ obs'.attempts = 1
               /\ useAlternate' = Truthy(config'.startWithAlternateColor)
               /\ obs'.color = config'[obs'.field]]_vars

\* a commit that changed the base colour was saved and then applied
C15_Witness ==
    /\ obs.op = "onSettingsChanged"
    /\ obs.payload.isDict
    /\ "baseColor" \in DOMAIN obs.payload.m
    /\ config.baseColor = "#00FFDE"
    /\ obs.save = "ok"
    /\ file = FileObject(config)
    /\ obs.color = "#00FFDE"
    /\ obs.attempts = 1

\* C14: every refreshFromConfig(config), called directly or by a settings
\* commit, leaves useAlternate equal to config.startWithAlternateColor
\* whatever the toggle position was, and makes exactly one apply attempt,
\* with the colour the new configuration selects; pendingUpdate is set when
\* that attempt fails and cleared when it succeeds.
C14_RefreshReseeds ==
    [][(\/ obs'.op = "refreshFromConfig"
        \/ obs'.op = "onSettingsChanged" /\ obs'.payload.isDict) =>
          /\ useAlternate' = Truthy(config'.startWithAlternateColor)
          /\ obs'.attempts = 1
          /\ obs'.field = IF Truthy(config'.startWithAlternateColor)
                          THEN "alternateColor" ELSE "baseColor"
          /\ obs'.color = config'[obs'.field]
          /\ pendingUpdate' = ~Accepted(obs'.calls)]_vars

\* a refresh that found the toggle position away from its seed and failed
C14_Witness ==
    /\ obs.op = "refreshFromConfig"
    /\ obs.wasAlternate # useAlternate
    /\ obs.attempts = 1
    /\ pendingUpdate

\* C18: uninstall() of the controller clears the installed flag and nothing
\* else: the configuration, useAlternate, pendingUpdate and the colour last
\* written to a backend stay as they were and no backend is called; an
\* install() on the uninstalled controller makes an apply attempt when the
\* configuration is enabled.
C18_UninstallOnlyFlag ==
    [][/\ obs'.op = "uninstall" =>
             /\ ~isInstalled'
             /\ UNCHANGED <<config, useAlternate, pendingUpdate, lastWritten>>
             /\ obs'.attempts = 0
             /\ obs'.calls = <<>>
       /\ (obs'.op = "install" /\ obs.op = "uninstall"
             /\ Truthy(config.enabled)) =>
             /\ isInstalled'
             /\ obs'.attempts = 1]_vars

\* uninstall() on a controller that holds a deferred update, a toggled
\* position and an applied colour
C18_Witness ==
    /\ obs.op = "uninstall"
    /\ ~isInstalled
    /\ pendingUpdate
    /\ useAlternate # seed
    /\ lastWritten \in Colors

\* C19: whenever pendingUpdate is false and at least one apply attempt has
\* been made, the colour most recently written to a backend is the colour
\* that the current useAlternate and the current configuration select.
C19_WrittenMatchesSelection ==
    (~pendingUpdate /\ lastResult # "none") =>
        lastWritten =
            config[IF useAlternate THEN "alternateColor" ELSE "baseColor"]

\* C17 as stated: the controller is Uninstalled, Installed(applied) or
\* Installed(pending): pendingUpdate is never true while the installed flag
\* is false, and a handler that made an apply attempt leaves the controller
\* installed.
C17_ThreeStates_Original ==
    /\ ~(pendingUpdate /\ ~isInstalled)
    /\ obs.attempts >= 1 => isInstalled

\* C17 (amended): the installed flag and pendingUpdate vary independently.
\* The installed flag is set by install() and cleared by uninstall() and by
\* nothing else; pendingUpdate changes only in a handler that makes an
\* apply attempt, and then tells whether the last attempt failed; uninstall()
\* keeps pendingUpdate, and toggle() on an enabled configuration makes its
\* attempt whether the controller is installed or not.
C17_InstalledAndPending ==
    [][/\ isInstalled' # isInstalled =>
             obs'.op = IF isInstalled' THEN "install" ELSE "uninstall"
       /\ obs'.op = "install" => isInstalled'
       /\ obs'.op = "uninstall" => ~isInstalled' /\ pendingUpdate' = pendingUpdate
       /\ pendingUpdate' # pendingUpdate => obs'.attempts >= 1
       /\ obs'.attempts >= 1 => pendingUpdate' = ~Accepted(obs'.calls)
       /\ (obs'.op = "toggle" /\ Truthy(config.enabled)) =>
             obs'.attempts = 1]_vars

\* a toggle on an uninstalled controller whose attempt failed
C17_Witness ==
    /\ obs.op = "toggle"
    /\ obs.attempts = 1
    /\ ~isInstalled
    /\ pendingUpdate

====
